---- MODULE Spec2Model ----
(***************************************************************************)
(* A model of the program-representation core of syzkaller's prog package: *)
(* the argument-tree traversal (ForeachArg / ForeachSubArg), the resource  *)
(* and memory analysis (analyze), the feature scan (RequiredFeatures) and  *)
(* the universal ANY encoding (isComplexPtr / squashPtr).                  *)
(*                                                                         *)
(* The argument tree is kept as nested records.  Every Arg carries an id   *)
(* that stands for the identity of the Go object (the *ConstArg,           *)
(* *ResultArg, ... pointer): two Args are the same object iff their ids    *)
(* are equal.                                                              *)
(***************************************************************************)
EXTENDS Integers, Sequences, FiniteSets, TLC

VARIABLES prog, op, ret, failure

vars == <<prog, op, ret, failure>>

(***************************************************************************)
(* Bounds of the model.                                                    *)
(***************************************************************************)
\* the longest program (number of calls) drawn from the descriptor table
MaxCalls == 3
\* the most elements an array argument is given
MaxArrayLen == 2

(***************************************************************************)
(* Target constants.                                                       *)
(***************************************************************************)
PtrSize == 8
PageSize == 4096

DirIn == "DirIn"
DirOut == "DirOut"
DirInOut == "DirInOut"

NoPanic == ""

(***************************************************************************)
(* Types.  One record shape for every Type; T is the Go type of the        *)
(* descriptor (PtrType, StructType, ...), Elem names the pointee / element *)
(* type (PtrType.Type, ArrayType.Type), NFields is len(typ.Fields).        *)
(***************************************************************************)
TypeCommon ==
  [T |-> "", TypeName |-> "", FldName |-> "", TypeSize |-> 0, ArgDir |-> DirIn,
   IsOptional |-> FALSE, IsVarlen |-> FALSE, BitfieldOff |-> 0, BitfieldLen |-> 0,
   BitfieldMdl |-> FALSE, IsPad |-> FALSE, AlignAttr |-> 0, NFields |-> 0,
   Desc |-> "", Kind |-> "", Elem |-> ""]

anyUnion ==
  [TypeCommon EXCEPT !.T = "UnionType", !.TypeName = "ANYUNION", !.FldName = "ANYUNION",
                     !.IsVarlen = TRUE, !.ArgDir = DirIn, !.NFields = 5]

anyArray ==
  [TypeCommon EXCEPT !.T = "ArrayType", !.TypeName = "ANYARRAY", !.FldName = "ANYARRAY",
                     !.IsVarlen = TRUE, !.Elem = "ANYUNION"]

anyPtrPtr ==
  [TypeCommon EXCEPT !.T = "PtrType", !.TypeName = "ptr", !.FldName = "ANYPTR",
                     !.TypeSize = PtrSize, !.IsOptional = TRUE, !.Elem = "ANYARRAY"]

anyPtr64 ==
  [TypeCommon EXCEPT !.T = "PtrType", !.TypeName = "ptr64", !.FldName = "ANYPTR64",
                     !.TypeSize = 8, !.IsOptional = TRUE, !.Elem = "ANYARRAY"]

anyBlob ==
  [TypeCommon EXCEPT !.T = "BufferType", !.TypeName = "ANYBLOB", !.FldName = "ANYBLOB",
                     !.IsVarlen = TRUE, !.Kind = "BufferBlobRand"]

\* createResource with the direction of a produced resource
createResourceOut(name, size) ==
  [TypeCommon EXCEPT !.T = "ResourceType", !.TypeName = name, !.FldName = name,
                     !.ArgDir = DirOut, !.TypeSize = size, !.IsOptional = TRUE,
                     !.Desc = name]

createResource(name, size) ==
  [TypeCommon EXCEPT !.T = "ResourceType", !.TypeName = name, !.FldName = name,
                     !.ArgDir = DirIn, !.TypeSize = size, !.IsOptional = TRUE,
                     !.Desc = name]

anyRes32 == createResource("ANYRES32", 4)
anyRes64 == createResource("ANYRES64", 8)

(***************************************************************************)
(* Arguments.  One record shape for every Arg; A is the Go type of the     *)
(* argument.  Res, Option hold zero or one Arg (nil or the pointee / the   *)
(* active option), Inner the children of a GroupArg, data the bytes of a   *)
(* DataArg and size the size of an output DataArg.                         *)
(***************************************************************************)
ArgCommon ==
  [id |-> 0, A |-> "", typ |-> TypeCommon, Val |-> 0, Address |-> 0, VmaSize |-> 0,
   Res |-> <<>>, data |-> <<>>, size |-> 0, Inner |-> <<>>, Option |-> <<>>]

MakeConstArg(i, t, v) == [ArgCommon EXCEPT !.id = i, !.A = "ConstArg", !.typ = t, !.Val = v]
MakeResultArg(i, t, v) == [ArgCommon EXCEPT !.id = i, !.A = "ResultArg", !.typ = t, !.Val = v]
MakePointerArg(i, t, addr, res) ==
  [ArgCommon EXCEPT !.id = i, !.A = "PointerArg", !.typ = t, !.Address = addr, !.Res = <<res>>]
MakeVmaPointerArg(i, t, addr, sz) ==
  [ArgCommon EXCEPT !.id = i, !.A = "PointerArg", !.typ = t, !.Address = addr, !.VmaSize = sz]
MakeNullPointerArg(i, t) == [ArgCommon EXCEPT !.id = i, !.A = "PointerArg", !.typ = t]
MakeDataArg(i, t, d) == [ArgCommon EXCEPT !.id = i, !.A = "DataArg", !.typ = t, !.data = d]
MakeOutDataArg(i, t, sz) == [ArgCommon EXCEPT !.id = i, !.A = "DataArg", !.typ = t, !.size = sz]
MakeGroupArg(i, t, inner) == [ArgCommon EXCEPT !.id = i, !.A = "GroupArg", !.typ = t, !.Inner = inner]
MakeUnionArg(i, t, opt) == [ArgCommon EXCEPT !.id = i, !.A = "UnionArg", !.typ = t, !.Option = <<opt>>]

IsNull(arg) == arg.Address = 0 /\ arg.VmaSize = 0 /\ arg.Res = <<>>

IsPad(t) == t.T = "ConstType" /\ t.IsPad

RECURSIVE Size(_)
RECURSIVE InnerSize(_, _)

\* the sum of the sizes of the non-bitfield-middle members of inner[i..]
InnerSize(inner, i) ==
  IF i > Len(inner) THEN 0
  ELSE (IF inner[i].typ.BitfieldMdl THEN 0 ELSE Size(inner[i])) + InnerSize(inner, i + 1)

AlignUp(n, align) ==
  IF align # 0 /\ (n % align) # 0 THEN n + (align - (n % align)) ELSE n

Size(arg) ==
  CASE arg.A = "DataArg" -> IF Len(arg.data) # 0 THEN Len(arg.data) ELSE arg.size
    [] arg.A = "GroupArg" ->
         IF ~arg.typ.IsVarlen THEN arg.typ.TypeSize
         ELSE IF arg.typ.T = "StructType"
              THEN AlignUp(InnerSize(arg.Inner, 1), arg.typ.AlignAttr)
              ELSE InnerSize(arg.Inner, 1)
    [] arg.A = "UnionArg" ->
         IF ~arg.typ.IsVarlen THEN arg.typ.TypeSize ELSE Size(arg.Option[1])
    [] OTHER -> arg.typ.TypeSize

(***************************************************************************)
(* Traversal.  A callback f(arg, ctx) of the Go code closes over the       *)
(* variables it updates; here a callback is named by cb, reads env, and    *)
(* maps the accumulated value acc to [acc, Stop].  A traversal carries     *)
(* st = [acc, panic]: once a panic is raised nothing more is executed.     *)
(***************************************************************************)
ArgCtx == [Parent |-> 0, Base |-> 0, Offset |-> 0, Stop |-> FALSE]

Lookup(m, k) == IF k \in DOMAIN m THEN m[k] ELSE <<>>

Put(m, k, v) == [x \in DOMAIN m \cup {k} |-> IF x = k THEN v ELSE m[x]]

\* make(map[string][]Arg)
EmptyMap == [x \in {} |-> <<>>]

newState ==
  [files |-> {}, resources |-> EmptyMap, strings |-> {}, ma |-> <<>>, va |-> <<>>]

\* the callback of state.analyze: the allocator notes, then the resource
\* table and the string and file name sets
analyzeNote(s, arg) ==
  IF arg.A # "PointerArg" \/ IsNull(arg) THEN s
  ELSE IF arg.VmaSize # 0
       THEN [s EXCEPT !.va = Append(@, <<arg.Address \div PageSize, arg.VmaSize \div PageSize>>)]
       ELSE [s EXCEPT !.ma = Append(@, <<arg.Address, Size(arg.Res[1])>>)]

\* analyzeType that records a new occurrence in front of the earlier ones
analyzeTypeFront(s, arg) ==
  CASE arg.typ.T = "ResourceType" ->
         IF arg.typ.ArgDir # DirIn
         THEN [s EXCEPT !.resources =
                 Put(@, arg.typ.Desc, <<arg.id>> \o Lookup(@, arg.typ.Desc))]
         ELSE s
    [] arg.typ.T = "BufferType" ->
         IF arg.typ.ArgDir # DirOut /\ Len(arg.data) # 0
         THEN CASE arg.typ.Kind = "BufferString" -> [s EXCEPT !.strings = @ \cup {arg.data}]
                [] arg.typ.Kind = "BufferFilename" -> [s EXCEPT !.files = @ \cup {arg.data}]
                [] OTHER -> s
         ELSE s
    [] OTHER -> s

\* analyzeType that records a resource argument of any direction
analyzeTypeAnyDir(s, arg) ==
  CASE arg.typ.T = "ResourceType" ->
         [s EXCEPT !.resources =
            Put(@, arg.typ.Desc, Append(Lookup(@, arg.typ.Desc), arg.id))]
    [] arg.typ.T = "BufferType" ->
         IF arg.typ.ArgDir # DirOut /\ Len(arg.data) # 0
         THEN CASE arg.typ.Kind = "BufferString" -> [s EXCEPT !.strings = @ \cup {arg.data}]
                [] arg.typ.Kind = "BufferFilename" -> [s EXCEPT !.files = @ \cup {arg.data}]
                [] OTHER -> s
         ELSE s
    [] OTHER -> s

analyzeType(s, arg) ==
  CASE arg.typ.T = "ResourceType" ->
         IF arg.typ.ArgDir # DirIn
         THEN [s EXCEPT !.resources =
                 Put(@, arg.typ.Desc, Append(Lookup(@, arg.typ.Desc), arg.id))]
         ELSE s
    [] arg.typ.T = "BufferType" ->
         IF arg.typ.ArgDir # DirOut /\ Len(arg.data) # 0
         THEN CASE arg.typ.Kind = "BufferString" -> [s EXCEPT !.strings = @ \cup {arg.data}]
                [] arg.typ.Kind = "BufferFilename" -> [s EXCEPT !.files = @ \cup {arg.data}]
                [] OTHER -> s
         ELSE s
    [] OTHER -> s

analyzeArg(s, arg) == analyzeType(analyzeNote(s, arg), arg)

\* the callback of RequiredFeatures
requiredFeaturesArg(acc, arg) ==
  [bitmasks |-> acc.bitmasks \/
                (arg.A = "ConstArg" /\ (arg.typ.BitfieldOff # 0 \/ arg.typ.BitfieldLen # 0)),
   csums |-> acc.csums \/ arg.typ.T = "CsumType"]

isAnyPtr(typ) == typ.T = "PtrType" /\ typ.Elem = "ANYARRAY"

\* isComplexPtrArg that takes a union of five fields for a complex one
isComplexPtrArgFive(env, acc, a1) ==
  CASE a1.typ.T = "StructType" ->
         IF a1.typ.IsVarlen THEN [acc |-> TRUE, Stop |-> TRUE] ELSE [acc |-> acc, Stop |-> FALSE]
    [] a1.typ.T = "UnionType" ->
         IF a1.typ.IsVarlen /\ a1.typ.NFields >= 5
         THEN [acc |-> TRUE, Stop |-> TRUE] ELSE [acc |-> acc, Stop |-> FALSE]
    [] a1.typ.T = "PtrType" -> [acc |-> acc, Stop |-> a1.id # env.id]
    [] OTHER -> [acc |-> acc, Stop |-> FALSE]

\* the callback of isComplexPtr; env is the pointer argument under test
isComplexPtrArg(env, acc, a1) ==
  CASE a1.typ.T = "StructType" ->
         IF a1.typ.IsVarlen THEN [acc |-> TRUE, Stop |-> TRUE] ELSE [acc |-> acc, Stop |-> FALSE]
    [] a1.typ.T = "UnionType" ->
         IF a1.typ.IsVarlen /\ a1.typ.NFields > 5
         THEN [acc |-> TRUE, Stop |-> TRUE] ELSE [acc |-> acc, Stop |-> FALSE]
    [] a1.typ.T = "PtrType" -> [acc |-> acc, Stop |-> a1.id # env.id]
    [] OTHER -> [acc |-> acc, Stop |-> FALSE]

\* a caller's callback: it records the arguments it is given and sets Stop
\* on the arguments of env
visitArg(env, acc, arg) == [acc |-> Append(acc, arg.id), Stop |-> arg.id \in env]

RECURSIVE foreachArgImpl(_, _, _, _, _)
RECURSIVE foreachInner(_, _, _, _, _, _, _)
RECURSIVE Callback(_, _, _, _, _)

\* GroupSizeBad that checks the groups of variable length only
GroupSizeBadVarlenOnly(a, totalSize) ==
  a.typ.IsVarlen /\ totalSize > Size(a)

GroupSizeBad(a, totalSize) ==
  LET claimedSize == Size(a)
      varlen == a.typ.IsVarlen
  IN (varlen /\ totalSize > claimedSize) \/ (~varlen /\ totalSize # claimedSize)

\* the loop over a.Inner of foreachArgImpl, from member i on
foreachInner(inner, i, ctx, totalSize, cb, env, st) ==
  IF i > Len(inner) \/ st.panic # NoPanic THEN [st |-> st, totalSize |-> totalSize]
  ELSE LET st1 == foreachArgImpl(inner[i], ctx, cb, env, st)
           size == IF inner[i].typ.BitfieldMdl THEN 0 ELSE Size(inner[i])
       IN foreachInner(inner, i + 1, [ctx EXCEPT !.Offset = @ + size],
                       totalSize + size, cb, env, st1)

foreachArgImpl(arg, ctx, cb, env, st) ==
  IF st.panic # NoPanic THEN st
  ELSE LET r == Callback(cb, env, st.acc, arg, ctx)
           st1 == [acc |-> r.acc, panic |-> r.panic]
       IN IF r.panic # NoPanic \/ r.Stop THEN st1
          ELSE CASE arg.A = "GroupArg" ->
                      LET ctx1 == IF arg.typ.T = "StructType"
                                  THEN [ctx EXCEPT !.Parent = arg.id] ELSE ctx
                          g == foreachInner(arg.Inner, 1, ctx1, 0, cb, env, st1)
                      IN IF g.st.panic = NoPanic /\ GroupSizeBad(arg, g.totalSize)
                         THEN [g.st EXCEPT !.panic = "bad group arg size"]
                         ELSE g.st
                 [] arg.A = "PointerArg" ->
                      IF arg.Res # <<>>
                      THEN foreachArgImpl(arg.Res[1],
                                          [ctx EXCEPT !.Base = arg.id, !.Offset = 0],
                                          cb, env, st1)
                      ELSE st1
                 [] arg.A = "UnionArg" -> foreachArgImpl(arg.Option[1], ctx, cb, env, st1)
                 [] OTHER -> st1

ForeachSubArg(arg, cb, env, acc) ==
  foreachArgImpl(arg, ArgCtx, cb, env, [acc |-> acc, panic |-> NoPanic])

RECURSIVE foreachCallArgs(_, _, _, _, _, _)

\* the loop over c.Args of ForeachArg, from argument i on
foreachCallArgs(args, i, ctx, cb, env, st) ==
  IF i > Len(args) THEN st
  ELSE foreachCallArgs(args, i + 1, ctx, cb, env, foreachArgImpl(args[i], ctx, cb, env, st))

\* ForeachArg that visits the return value after the arguments
ForeachArgRetLast(c, cb, env, acc) ==
  LET st0 == [acc |-> acc, panic |-> NoPanic]
      st1 == foreachCallArgs(c.Args, 1, [ArgCtx EXCEPT !.Parent = 0 - c.id], cb, env, st0)
  IN IF c.Ret # <<>> THEN foreachArgImpl(c.Ret[1], ArgCtx, cb, env, st1) ELSE st1

ForeachArg(c, cb, env, acc) ==
  LET st0 == [acc |-> acc, panic |-> NoPanic]
      st1 == IF c.Ret # <<>> THEN foreachArgImpl(c.Ret[1], ArgCtx, cb, env, st0) ELSE st0
  IN foreachCallArgs(c.Args, 1, [ArgCtx EXCEPT !.Parent = 0 - c.id], cb, env, st1)

isComplexPtr(arg) ==
  IF arg.Res = <<>> \/ arg.typ.ArgDir # DirIn THEN [res |-> FALSE, panic |-> NoPanic]
  ELSE IF isAnyPtr(arg.typ) THEN [res |-> TRUE, panic |-> NoPanic]
  ELSE LET st == ForeachSubArg(arg.Res[1], "isComplexPtr", arg, FALSE)
       IN [res |-> st.acc, panic |-> st.panic]

\* f(arg, &ctx) for the callback named cb: [acc, Stop, panic]
Callback(cb, env, acc, arg, ctx) ==
  LET r == CASE cb = "analyze" -> [acc |-> analyzeArg(acc, arg), Stop |-> FALSE]
             [] cb = "RequiredFeatures" -> [acc |-> requiredFeaturesArg(acc, arg), Stop |-> FALSE]
             [] cb = "isComplexPtr" -> isComplexPtrArg(env, acc, arg)
             [] cb = "visit" -> visitArg(env, acc, arg)
             [] OTHER -> [acc |-> acc, Stop |-> FALSE]
  IN [acc |-> r.acc, Stop |-> r.Stop, panic |-> NoPanic]

RECURSIVE analyzeCalls(_, _, _, _)
\* the loop over p.Calls of analyze, from call i on
analyzeCalls(calls, i, c, st) ==
  IF i > Len(calls) \/ st.panic # NoPanic THEN st
  ELSE IF calls[i].id = c.id THEN st
  ELSE analyzeCalls(calls, i + 1, c, ForeachArg(calls[i], "analyze", <<>>, st.acc))

\* analyze without the break at c
analyzeWhole(p, c) == analyzeCalls(p, 1, [id |-> 0], [acc |-> newState, panic |-> NoPanic])

\* analyze(ct, p, c): [acc |-> the state, panic]
analyze(p, c) == analyzeCalls(p, 1, c, [acc |-> newState, panic |-> NoPanic])

RECURSIVE scanCalls(_, _, _, _)
\* a loop over p.Calls that runs ForeachArg with callback cb on every call
scanCalls(calls, i, cb, st) ==
  IF i > Len(calls) \/ st.panic # NoPanic THEN st
  ELSE scanCalls(calls, i + 1, cb, ForeachArg(calls[i], cb, <<>>, st.acc))

\* RequiredFeatures that returns after the first call
RequiredFeaturesFirstCall(p) ==
  scanCalls(SubSeq(p, 1, 1), 1, "RequiredFeatures",
            [acc |-> [bitmasks |-> FALSE, csums |-> FALSE], panic |-> NoPanic])

RequiredFeatures(p) ==
  scanCalls(p, 1, "RequiredFeatures",
            [acc |-> [bitmasks |-> FALSE, csums |-> FALSE], panic |-> NoPanic])

(***************************************************************************)
(* The ANY encoding.  The Args squashPtr allocates (the array, its union   *)
(* elements and their blobs) get ids derived from the id of the pointer    *)
(* being squashed; the ResultArgs and PointerArgs it moves keep theirs.    *)
(***************************************************************************)
FreshId(pid, j) == pid * 100 + j

makeAnyPtrType(size, field) ==
  LET typ == IF size = PtrSize THEN anyPtrPtr ELSE anyPtr64
      typ1 == [typ EXCEPT !.TypeSize = size]
  IN IF size # PtrSize /\ size # 8 THEN [typ |-> typ1, panic |-> "bad pointer size"]
     ELSE [typ |-> IF field # "" THEN [typ1 EXCEPT !.FldName = field] ELSE typ1,
           panic |-> NoPanic]

\* elems with an open blob element as its last element
ensureDataElem(elems, pid) ==
  IF Len(elems) = 0 \/ elems[Len(elems)].Option[1].A # "DataArg"
  THEN Append(elems, MakeUnionArg(FreshId(pid, 2 * Len(elems) + 1), anyUnion,
                                  MakeDataArg(FreshId(pid, 2 * Len(elems) + 2), anyBlob, <<>>)))
  ELSE elems

\* elem := target.ensureDataElem(elems); elem.data = append(elem.Data(), bytes...)
appendData(elems, pid, bytes) ==
  LET e == ensureDataElem(elems, pid)
  IN [e EXCEPT ![Len(e)].Option[1].data = @ \o bytes]

\* for i < n { append(byte(v)); v >>= 8 }
RECURSIVE leBytes(_, _)
leBytes(v, n) == IF n = 0 THEN <<>> ELSE <<v % 256>> \o leBytes(v \div 256, n - 1)

zeroBytes(n) == [i \in 1..n |-> 0]

ValueForProc(arg) == arg.Val

PhysicalAddr(arg) == IF IsNull(arg) THEN 0 ELSE arg.Address

\* appendElem that puts the element in front
appendElemFront(elems, pid, arg) ==
  <<MakeUnionArg(FreshId(pid, 2 * Len(elems) + 1), anyUnion, arg)>> \o elems

\* *elems = append(*elems, MakeUnionArg(target.anyUnion, arg))
appendElem(elems, pid, arg) ==
  Append(elems, MakeUnionArg(FreshId(pid, 2 * Len(elems) + 1), anyUnion, arg))

anyResType(size) ==
  CASE size = 4 -> [typ |-> anyRes32, panic |-> NoPanic]
    [] size = 8 -> [typ |-> anyRes64, panic |-> NoPanic]
    [] OTHER -> [typ |-> TypeCommon, panic |-> "bad size"]

\* unionPad of a squash that forgets the padding of unions
unionPadNone(arg) == 0

\* the zero padding a fixed-size union needs after its option
unionPad(arg) == IF ~arg.typ.IsVarlen THEN Size(arg) - Size(arg.Option[1]) ELSE 0

\* the zero padding that aligns a variable-length struct with an align attribute
structPad(arg) ==
  IF arg.typ.T = "StructType" /\ arg.typ.IsVarlen /\ arg.typ.AlignAttr # 0
  THEN LET fieldsSize == InnerSize(arg.Inner, 1)
       IN IF (fieldsSize % arg.typ.AlignAttr) # 0
          THEN arg.typ.AlignAttr - (fieldsSize % arg.typ.AlignAttr)
          ELSE 0
  ELSE 0

RECURSIVE squashPtr(_, _)
RECURSIVE squashPtrImpl(_, _, _)
RECURSIVE squashFields(_, _, _, _)

\* squashPtrImpl's result for a, given sq = [elems, panic]: the elements so
\* far, and a as the call leaves it (its ResultArgs retyped, its pointers
\* squashed)
squashPtrImpl(a, sq, pid) ==
  IF sq.panic # NoPanic THEN [a |-> a, elems |-> sq.elems, panic |-> sq.panic]
  ELSE IF a.typ.BitfieldMdl THEN [a |-> a, elems |-> sq.elems, panic |-> "bitfield in squash"]
  ELSE LET r ==
         CASE a.A = "ConstArg" ->
                IF IsPad(a.typ)
                THEN [a |-> a, elems |-> sq.elems, panic |-> NoPanic, pad |-> Size(a)]
                ELSE [a |-> a, panic |-> NoPanic, pad |-> 0,
                      elems |-> appendData(sq.elems, pid, leBytes(ValueForProc(a), Size(a)))]
           [] a.A = "ResultArg" ->
                LET t == anyResType(Size(a))
                    a1 == [a EXCEPT !.typ = t.typ]
                IN IF t.panic # NoPanic
                   THEN [a |-> a, elems |-> sq.elems, panic |-> t.panic, pad |-> 0]
                   ELSE [a |-> a1, panic |-> NoPanic, pad |-> 0,
                         elems |-> appendElem(sq.elems, pid, a1)]
           [] a.A = "PointerArg" ->
                IF a.Res # <<>>
                THEN LET p == squashPtr(a, FALSE)
                     IN IF p.panic # NoPanic
                        THEN [a |-> p.arg, elems |-> sq.elems, panic |-> p.panic, pad |-> 0]
                        ELSE [a |-> p.arg, panic |-> NoPanic, pad |-> 0,
                              elems |-> appendElem(sq.elems, pid, p.arg)]
                ELSE [a |-> a, panic |-> NoPanic, pad |-> 0,
                      elems |-> appendData(sq.elems, pid, leBytes(PhysicalAddr(a), Size(a)))]
           [] a.A = "UnionArg" ->
                LET pad == unionPad(a)
                    o == squashPtrImpl(a.Option[1], sq, pid)
                IN [a |-> [a EXCEPT !.Option = <<o.a>>], elems |-> o.elems,
                    panic |-> o.panic, pad |-> pad]
           [] a.A = "DataArg" ->
                IF a.typ.ArgDir = DirOut
                THEN [a |-> a, elems |-> sq.elems, panic |-> NoPanic, pad |-> Size(a)]
                ELSE [a |-> a, panic |-> NoPanic, pad |-> 0,
                      elems |-> appendData(sq.elems, pid, a.data)]
           [] a.A = "GroupArg" ->
                LET pad == structPad(a)
                    g == squashFields(a.Inner, 1, sq, pid)
                IN [a |-> [a EXCEPT !.Inner = g.inner], elems |-> g.elems,
                    panic |-> g.panic, pad |-> pad]
           [] OTHER -> [a |-> a, elems |-> sq.elems, panic |-> "bad arg kind", pad |-> 0]
       IN IF r.panic = NoPanic /\ r.pad # 0
          THEN [a |-> r.a, elems |-> appendData(r.elems, pid, zeroBytes(r.pad)), panic |-> NoPanic]
          ELSE [a |-> r.a, elems |-> r.elems, panic |-> r.panic]

\* the loop over arg.Inner of squashPtrImpl, from field i on
squashFields(inner, i, sq, pid) ==
  IF i > Len(inner) \/ sq.panic # NoPanic
  THEN [inner |-> inner, elems |-> sq.elems, panic |-> sq.panic]
  ELSE IF inner[i].typ.BitfieldMdl THEN squashFields(inner, i + 1, sq, pid)
  ELSE LET r == squashPtrImpl(inner[i], sq, pid)
       IN squashFields([inner EXCEPT ![i] = r.a], i + 1,
                       [elems |-> r.elems, panic |-> r.panic], pid)

squashPtr(arg, preserveField) ==
  IF arg.Res = <<>> \/ arg.VmaSize # 0 THEN [arg |-> arg, panic |-> "bad ptr arg"]
  ELSE LET res0 == arg.Res[1]
           size0 == Size(res0)
           r == squashPtrImpl(res0, [elems |-> <<>>, panic |-> NoPanic], arg.id)
           field == IF preserveField THEN arg.typ.FldName ELSE ""
           t == makeAnyPtrType(Size(arg), field)
           arg1 == [arg EXCEPT !.typ = t.typ,
                               !.Res = <<MakeGroupArg(FreshId(arg.id, 0), anyArray, r.elems)>>]
       IN IF r.panic # NoPanic THEN [arg |-> [arg EXCEPT !.Res = <<r.a>>], panic |-> r.panic]
          ELSE IF t.panic # NoPanic THEN [arg |-> [arg EXCEPT !.Res = <<r.a>>], panic |-> t.panic]
          ELSE IF Size(arg1.Res[1]) # size0 THEN [arg |-> arg1, panic |-> "squash changed size"]
          ELSE [arg |-> arg1, panic |-> NoPanic]

(***************************************************************************)
(* The descriptor table.  pipe, pipefd, the fd resource and mmap are the   *)
(* freebsd/amd64 table; the other syscalls are test descriptions:          *)
(*                                                                         *)
(*   dup(oldfd fd) fd                                                      *)
(*   open(file ptr[in, filename], flags int8:3) fd                         *)
(*   send(fd fd, msg ptr[in, msghdr])                                      *)
(*     msghdr { csum csum[int16]; tag string[2] }                          *)
(*   big(a ptr[in, big_struct])                                            *)
(*     big_struct { f0 int16; f1 int8:5; f2 int8:3; f3 fd; f4 big_union;   *)
(*                  f5 array[ptr[out, outrec]]; f6 filename; f7 pad[1];    *)
(*                  f8 vma } [varlen, optionally align_4]                  *)
(*     big_union [ sock sock; tag int16; port port ]   (8 bytes)           *)
(*     outrec { rfd fd; wfd fd; buf array[int8, 3] }   (11 bytes, out)     *)
(*   un(u ptr[in or out, un_union])    un_union: varlen, 5 or 6 fields     *)
(*   nest(n ptr[in, nest_struct], z ptr[in, int8, opt])                    *)
(*     nest_struct { p ptr[in, inner_struct]; c csum[int16] } (10 bytes)   *)
(*     inner_struct { s string } [varlen]                                  *)
(*   arr(a ptr[in, arr_struct])                                            *)
(*     arr_struct { v array[int32, 2]; w int32 }       (12 bytes)          *)
(***************************************************************************)
Ty(t, name, fld, size, dir) ==
  [TypeCommon EXCEPT !.T = t, !.TypeName = name, !.FldName = fld, !.TypeSize = size,
                     !.ArgDir = dir]

ResTy(name, fld, size, dir) == [Ty("ResourceType", name, fld, size, dir) EXCEPT !.Desc = name]

PtrTy(fld, dir, elem) == [Ty("PtrType", "ptr", fld, PtrSize, dir) EXCEPT !.Elem = elem]

BufTy(name, fld, kind, dir) ==
  [Ty("BufferType", name, fld, 0, dir) EXCEPT !.Kind = kind, !.IsVarlen = TRUE]

pipefdType == [Ty("StructType", "pipefd", "", 8, DirOut) EXCEPT !.NFields = 2]

\* the Call object of a syscall: its id is its identity, the ids of its
\* arguments are FreshId(id, 1), FreshId(id, 2), ...
MakeCall(i, name, args, r) == [id |-> i, Meta |-> name, Args |-> args, Ret |-> r]

pipefdArg(i, j) ==
  MakeGroupArg(FreshId(i, j), pipefdType,
    << MakeResultArg(FreshId(i, j + 1), ResTy("fd", "rfd", 4, DirOut), 0),
       MakeResultArg(FreshId(i, j + 2), ResTy("fd", "wfd", 4, DirOut), 0) >>)

pipeCall ==
  MakeCall(1, "pipe",
    << MakePointerArg(FreshId(1, 1), PtrTy("pipefd", DirIn, "pipefd"), 64, pipefdArg(1, 2)) >>,
    <<>>)

mmapCall ==
  MakeCall(2, "mmap",
    << MakeVmaPointerArg(FreshId(2, 1), Ty("VmaType", "vma", "addr", 8, DirIn),
                         2 * PageSize, 3 * PageSize),
       MakeConstArg(FreshId(2, 2), Ty("LenType", "len", "len", 8, DirIn), 3 * PageSize),
       MakeConstArg(FreshId(2, 3), Ty("FlagsType", "mmap_prot", "prot", 8, DirIn), 3),
       MakeConstArg(FreshId(2, 4), Ty("FlagsType", "mmap_flags", "flags", 8, DirIn), 4096 + 16 + 2),
       \* the value of fd is all ones; no operation reads it
       MakeConstArg(FreshId(2, 5), Ty("ConstType", "const", "fd", 8, DirIn), 0 - 1),
       MakeConstArg(FreshId(2, 6), Ty("ConstType", "const", "offset", 8, DirIn), 0) >>,
    << MakeResultArg(FreshId(2, 7), Ty("VmaType", "vma", "ret", 8, DirOut), 0) >>)

dupCall ==
  MakeCall(3, "dup",
    << MakeResultArg(FreshId(3, 1), ResTy("fd", "oldfd", 4, DirIn), 0) >>,
    << MakeResultArg(FreshId(3, 2), ResTy("fd", "ret", 4, DirOut), 0) >>)

openCall ==
  MakeCall(4, "open",
    << MakePointerArg(FreshId(4, 1), PtrTy("file", DirIn, "filename"), 128,
         MakeDataArg(FreshId(4, 2), BufTy("filename", "file", "BufferFilename", DirIn),
                     <<102, 0>>)),
       MakeConstArg(FreshId(4, 3),
         [Ty("IntType", "int8", "flags", 1, DirIn) EXCEPT !.BitfieldOff = 2, !.BitfieldLen = 3],
         5) >>,
    << MakeResultArg(FreshId(4, 4), ResTy("fd", "ret", 4, DirOut), 0) >>)

sendCall ==
  MakeCall(5, "send",
    << MakeResultArg(FreshId(5, 1), ResTy("fd", "fd", 4, DirIn), 0),
       MakePointerArg(FreshId(5, 2), PtrTy("msg", DirIn, "msghdr"), 256,
         MakeGroupArg(FreshId(5, 3),
           [Ty("StructType", "msghdr", "", 4, DirIn) EXCEPT !.NFields = 2],
           << MakeConstArg(FreshId(5, 4), Ty("CsumType", "csum", "csum", 2, DirIn), 0),
              MakeDataArg(FreshId(5, 5),
                [Ty("BufferType", "string", "tag", 2, DirIn) EXCEPT !.Kind = "BufferString"],
                <<104, 105>>) >>)) >>,
    <<>>)

outrecArg(i, j) ==
  MakeGroupArg(FreshId(i, j),
    [Ty("StructType", "outrec", "", 11, DirOut) EXCEPT !.NFields = 3],
    << MakeResultArg(FreshId(i, j + 1), ResTy("fd", "rfd", 4, DirOut), 0),
       MakeResultArg(FreshId(i, j + 2), ResTy("fd", "wfd", 4, DirOut), 0),
       MakeOutDataArg(FreshId(i, j + 3),
         [Ty("BufferType", "array", "buf", 3, DirOut) EXCEPT !.Kind = "BufferBlobRange"], 3) >>)

\* the options of big_union
bigOption(i, o) ==
  CASE o = "sock" -> MakeResultArg(FreshId(i, 8), ResTy("sock", "sock", 8, DirOut), 0)
    [] o = "tag" -> MakeConstArg(FreshId(i, 8), Ty("IntType", "int16", "tag", 2, DirIn), 48879)
    [] o = "port" -> MakeResultArg(FreshId(i, 8), ResTy("port", "port", 2, DirIn), 0)

BigOptions == {"sock", "tag", "port"}

bigCall(align, o, n) ==
  MakeCall(6, "big",
    << MakePointerArg(FreshId(6, 1), PtrTy("a", DirIn, "big_struct"), 512,
         MakeGroupArg(FreshId(6, 2),
           [Ty("StructType", "big_struct", "", 0, DirIn) EXCEPT
              !.IsVarlen = TRUE, !.AlignAttr = align, !.NFields = 9],
           << MakeConstArg(FreshId(6, 3), Ty("IntType", "int16", "f0", 2, DirIn), 4660),
              MakeConstArg(FreshId(6, 4),
                [Ty("IntType", "int8", "f1", 1, DirIn) EXCEPT
                   !.BitfieldLen = 5, !.BitfieldMdl = TRUE], 17),
              MakeConstArg(FreshId(6, 5),
                [Ty("IntType", "int8", "f2", 1, DirIn) EXCEPT
                   !.BitfieldOff = 5, !.BitfieldLen = 3], 5),
              MakeResultArg(FreshId(6, 6), ResTy("fd", "f3", 4, DirIn), 0),
              MakeUnionArg(FreshId(6, 7),
                [Ty("UnionType", "big_union", "f4", 8, DirIn) EXCEPT !.NFields = 3],
                bigOption(6, o)),
              MakeGroupArg(FreshId(6, 9),
                [Ty("ArrayType", "array", "f5", 0, DirIn) EXCEPT
                   !.IsVarlen = TRUE, !.Elem = "ptr"],
                [k \in 1..n |->
                   MakePointerArg(FreshId(6, 10 * k + 10), PtrTy("f5", DirOut, "outrec"),
                                  1024 * k, outrecArg(6, 10 * k + 11))]),
              MakeDataArg(FreshId(6, 10), BufTy("filename", "f6", "BufferFilename", DirIn),
                          <<102>>),
              MakeConstArg(FreshId(6, 11),
                [Ty("ConstType", "pad", "f7", 1, DirIn) EXCEPT !.IsPad = TRUE], 0),
              MakeVmaPointerArg(FreshId(6, 12), Ty("VmaType", "vma", "f8", 8, DirIn),
                                4 * PageSize, PageSize) >>)) >>,
    <<>>)

unCall(dir, nfields, o) ==
  MakeCall(7, "un",
    << MakePointerArg(FreshId(7, 1), PtrTy("u", dir, "un_union"), 64,
         MakeUnionArg(FreshId(7, 2),
           [Ty("UnionType", "un_union", "", 0, dir) EXCEPT
              !.IsVarlen = TRUE, !.NFields = nfields],
           IF o = "bin"
           THEN IF dir = DirOut
                THEN MakeOutDataArg(FreshId(7, 3), BufTy("array", "bin", "BufferBlobRand", dir), 2)
                ELSE MakeDataArg(FreshId(7, 3), BufTy("array", "bin", "BufferBlobRand", dir),
                                 <<1, 2>>)
           ELSE MakeConstArg(FreshId(7, 3), Ty("IntType", "int32", "num", 4, dir), 66051))) >>,
    <<>>)

nestCall ==
  MakeCall(8, "nest",
    << MakePointerArg(FreshId(8, 1), PtrTy("n", DirIn, "nest_struct"), 64,
         MakeGroupArg(FreshId(8, 2),
           [Ty("StructType", "nest_struct", "", 10, DirIn) EXCEPT !.NFields = 2],
           << MakePointerArg(FreshId(8, 3), PtrTy("p", DirIn, "inner_struct"), 96,
                MakeGroupArg(FreshId(8, 4),
                  [Ty("StructType", "inner_struct", "", 0, DirIn) EXCEPT
                     !.IsVarlen = TRUE, !.NFields = 1],
                  << MakeDataArg(FreshId(8, 5),
                       BufTy("string", "s", "BufferString", DirIn), <<104, 105>>) >>)),
              MakeConstArg(FreshId(8, 6), Ty("CsumType", "csum", "c", 2, DirIn), 0) >>)),
       MakeNullPointerArg(FreshId(8, 7),
         [PtrTy("z", DirIn, "int8") EXCEPT !.IsOptional = TRUE]) >>,
    <<>>)

\* arr with n elements in v: the group size invariant holds iff n = 2
arrCall(n) ==
  MakeCall(9, "arr",
    << MakePointerArg(FreshId(9, 1), PtrTy("a", DirIn, "arr_struct"), 64,
         MakeGroupArg(FreshId(9, 2),
           [Ty("StructType", "arr_struct", "", 12, DirIn) EXCEPT !.NFields = 2],
           << MakeGroupArg(FreshId(9, 3),
                [Ty("ArrayType", "array", "v", 8, DirIn) EXCEPT !.Elem = "int32"],
                [k \in 1..n |->
                   MakeConstArg(FreshId(9, 3 + k), Ty("IntType", "int32", "", 4, DirIn), k)]),
              MakeConstArg(FreshId(9, 20), Ty("IntType", "int32", "w", 4, DirIn), 7) >>)) >>,
    <<>>)

\* the syscalls the longer programs are made of
TablePool == {pipeCall, mmapCall, dupCall, openCall, sendCall}

\* the calls of the one-call programs
TreePool ==
  {bigCall(align, o, n) : align \in {0, 4}, o \in BigOptions, n \in 0..MaxArrayLen}
  \cup {unCall(dir, nf, o) : dir \in {DirIn, DirOut}, nf \in {5, 6}, o \in {"bin", "num"}}
  \cup {nestCall}
  \cup {arrCall(n) : n \in 1..(MaxArrayLen + 1)}

RECURSIVE CallSeqs(_)
\* the sequences of at most n calls of TablePool, no call twice
CallSeqs(n) ==
  IF n = 0 THEN {<<>>}
  ELSE LET shorter == CallSeqs(n - 1)
       IN shorter \cup
          {Append(s, c) : <<s, c>> \in
             {sc \in shorter \X TablePool : \A k \in 1..Len(sc[1]) : sc[1][k].id # sc[2].id}}

ProgSet ==
  {<<c>> : c \in TreePool} \cup (CallSeqs(MaxCalls) \ {<<>>})

(***************************************************************************)
(* The state machine.  prog is the program the caller owns; an operation   *)
(* of the core runs to completion in one step and leaves its name in op    *)
(* and what it returned in ret.  A panic is fatal: it is recorded in       *)
(* failure, and nothing runs after it.  The operations other than          *)
(* squashPtr only read prog, so the state after one of them differs from   *)
(* the state before it in op and ret alone; every operation is therefore   *)
(* run from the program as construction or the last squashPtr left it      *)
(* (Ready), which reaches the same states as running it after any other.   *)
(***************************************************************************)
Ready == failure = NoPanic /\ op \in {"none", "squashPtr"}

RECURSIVE SubArgs(_)
\* the Args of the tree rooted at arg
SubArgs(arg) ==
  {arg} \cup UNION {SubArgs(arg.Inner[k]) : k \in 1..Len(arg.Inner)}
        \cup UNION {SubArgs(arg.Res[k]) : k \in 1..Len(arg.Res)}
        \cup UNION {SubArgs(arg.Option[k]) : k \in 1..Len(arg.Option)}

CallArgs(c) ==
  UNION {SubArgs(c.Args[k]) : k \in 1..Len(c.Args)}
  \cup UNION {SubArgs(c.Ret[k]) : k \in 1..Len(c.Ret)}

ProgArgs(p) == UNION {CallArgs(p[k]) : k \in 1..Len(p)}

RECURSIVE ReplaceArg(_, _)
\* the tree rooted at arg after the object new.id was changed to new
ReplaceArg(arg, new) ==
  IF arg.id = new.id THEN new
  ELSE [arg EXCEPT !.Inner = [k \in 1..Len(arg.Inner) |-> ReplaceArg(arg.Inner[k], new)],
                   !.Res = [k \in 1..Len(arg.Res) |-> ReplaceArg(arg.Res[k], new)],
                   !.Option = [k \in 1..Len(arg.Option) |-> ReplaceArg(arg.Option[k], new)]]

ReplaceInProg(p, new) ==
  [i \in 1..Len(p) |->
     [p[i] EXCEPT !.Args = [k \in 1..Len(p[i].Args) |-> ReplaceArg(p[i].Args[k], new)],
                  !.Ret = [k \in 1..Len(p[i].Ret) |-> ReplaceArg(p[i].Ret[k], new)]]]

\* the arguments a caller's callback may set Stop on: none, or one that has children
StopSets(args) == {{}} \cup {{a.id} : a \in {x \in args : x.A \in {"GroupArg", "PointerArg", "UnionArg"}}}

Init ==
  /\ prog \in ProgSet
  /\ op = "none"
  /\ ret = <<>>
  /\ failure = NoPanic

SquashPtr ==
  /\ Ready
  /\ \E arg \in {a \in ProgArgs(prog) : a.A = "PointerArg"}, preserveField \in BOOLEAN :
       LET r == squashPtr(arg, preserveField)
       IN /\ prog' = ReplaceInProg(prog, r.arg)
          /\ op' = "squashPtr"
          /\ ret' = [arg |-> arg.id, res0 |-> arg.Res, preserveField |-> preserveField]
          /\ failure' = r.panic

Analyze ==
  /\ Ready
  /\ \E k \in 1..Len(prog) :
       LET r == analyze(prog, prog[k])
       IN /\ op' = "analyze"
          /\ ret' = [c |-> prog[k].id, s |-> r.acc]
          /\ failure' = r.panic
          /\ UNCHANGED prog

Features ==
  /\ Ready
  /\ LET r == RequiredFeatures(prog)
     IN /\ op' = "RequiredFeatures"
        /\ ret' = r.acc
        /\ failure' = r.panic
        /\ UNCHANGED prog

IsComplexPtr ==
  /\ Ready
  /\ \E arg \in {a \in ProgArgs(prog) : a.A = "PointerArg"} :
       LET r == isComplexPtr(arg)
       IN /\ op' = "isComplexPtr"
          /\ ret' = [arg |-> arg.id, res |-> r.res]
          /\ failure' = r.panic
          /\ UNCHANGED prog

Foreach ==
  /\ Ready
  /\ \E k \in 1..Len(prog) : \E stops \in StopSets(CallArgs(prog[k])) :
       LET r == ForeachArg(prog[k], "visit", stops, <<>>)
       IN /\ op' = "ForeachArg"
          /\ ret' = [c |-> prog[k].id, stops |-> stops, visits |-> r.acc]
          /\ failure' = r.panic
          /\ UNCHANGED prog

ForeachSub ==
  /\ Ready
  /\ \E arg \in ProgArgs(prog) :
       LET r == ForeachSubArg(arg, "visit", {}, <<>>)
       IN /\ op' = "ForeachSubArg"
          /\ ret' = [arg |-> arg.id, visits |-> r.acc]
          /\ failure' = r.panic
          /\ UNCHANGED prog

Next ==
  \/ SquashPtr
  \/ Analyze
  \/ Features
  \/ IsComplexPtr
  \/ Foreach
  \/ ForeachSub

Spec == Init /\ [][Next]_vars

(***************************************************************************)
(* Definitions the properties are stated with.                             *)
(***************************************************************************)
\* the children of arg, in declared order
Children(arg) == arg.Inner \o arg.Res \o arg.Option

RECURSIVE PreOrder(_)
RECURSIVE PreOrderSeq(_, _)
\* arg and the Args below it, each parent before its children
PreOrder(arg) == <<arg>> \o PreOrderSeq(Children(arg), 1)
PreOrderSeq(args, i) ==
  IF i > Len(args) THEN <<>> ELSE PreOrder(args[i]) \o PreOrderSeq(args, i + 1)

\* the Args of a call: the return value's first, then the arguments'
CallPreOrder(c) == PreOrderSeq(c.Ret, 1) \o PreOrderSeq(c.Args, 1)

RECURSIVE ProgPreOrder(_, _)
\* the Args of the calls p[i..], in program order
ProgPreOrder(p, i) ==
  IF i > Len(p) THEN <<>> ELSE CallPreOrder(p[i]) \o ProgPreOrder(p, i + 1)

Ids(args) == [k \in 1..Len(args) |-> args[k].id]

NoDuplicates(seq) == \A i, j \in 1..Len(seq) : seq[i] = seq[j] => i = j

IsPrefix(s, t) == Len(s) <= Len(t) /\ \A i \in 1..Len(s) : s[i] = t[i]

\* the place of the call with identity id in p (0: none)
CallIndex(p, id) ==
  IF \E k \in 1..Len(p) : p[k].id = id THEN CHOOSE k \in 1..Len(p) : p[k].id = id ELSE 0

ArgById(p, id) == CHOOSE a \in ProgArgs(p) : a.id = id

\* the group size invariant of the data model
GroupOK(g) ==
  LET sum == InnerSize(g.Inner, 1)
  IN IF g.typ.IsVarlen THEN sum <= Size(g) ELSE sum = Size(g)

RECURSIVE Depth(_)
RECURSIVE MaxDepth(_, _)
Depth(arg) == 1 + MaxDepth(Children(arg), 1)
MaxDepth(args, i) ==
  IF i > Len(args) THEN 0
  ELSE LET d == Depth(args[i])
           m == MaxDepth(args, i + 1)
       IN IF d > m THEN d ELSE m

RECURSIVE DirectArgs(_)
RECURSIVE DirectArgsSeq(_, _)
\* arg and the Args below it that are not behind a pointer, in structural order
DirectArgs(arg) ==
  IF arg.A = "PointerArg" THEN <<arg>>
  ELSE <<arg>> \o DirectArgsSeq(Children(arg), 1)
DirectArgsSeq(args, i) ==
  IF i > Len(args) THEN <<>> ELSE DirectArgs(args[i]) \o DirectArgsSeq(args, i + 1)

IsResult(arg) == arg.A = "ResultArg"

\* the subtree t is well formed: every group satisfies the group size
\* invariant, every Result leaf has size 4 or 8, every pointer with a target
\* has the native width or 8
WellFormed(t) ==
  \A a \in SubArgs(t) :
    /\ a.A = "GroupArg" => GroupOK(a)
    /\ a.A = "ResultArg" => Size(a) \in {4, 8}
    /\ (a.A = "PointerArg" /\ a.Res # <<>>) => Size(a) \in {PtrSize, 8}

\* the size of one element of a squashed sequence, by the kind of its option
ElemSize(e) ==
  LET o == e.Option[1]
  IN IF o.A = "DataArg" THEN Len(o.data) ELSE o.typ.TypeSize

RECURSIVE SumSizes(_, _)
SumSizes(elems, i) ==
  IF i > Len(elems) THEN 0 ELSE ElemSize(elems[i]) + SumSizes(elems, i + 1)

\* a squashPtr call returned normally in the last step
Squashed == op = "squashPtr" /\ failure = NoPanic

\* the pointer the last squashPtr call was applied to, as it is now
SquashedPtr == ArgById(prog, ret.arg)

(***************************************************************************)
(* C1: squashPtr applied to a pointer with a target, no VMA size and a     *)
(* well-formed target subtree completes, and the sizes of the elements it  *)
(* installs add up to the size the target subtree had before the call.     *)
(***************************************************************************)
C1_SquashPreservesSize ==
  (op = "squashPtr" /\ ret.res0 # <<>> /\ ArgById(prog, ret.arg).VmaSize = 0
     /\ WellFormed(ret.res0[1]))
  => /\ failure = NoPanic
     /\ SquashedPtr.Res[1].typ = anyArray
     /\ SumSizes(SquashedPtr.Res[1].Inner, 1) = Size(ret.res0[1])

\* a completed squash of a subtree of depth 3 or more that mixes a struct,
\* a union, an array, a resource, data, padding and a nested pointer
C1_Witness ==
  /\ Squashed
  /\ ret.res0 # <<>>
  /\ WellFormed(ret.res0[1])
  /\ Depth(ret.res0[1]) >= 3
  /\ LET sub == SubArgs(ret.res0[1])
     IN /\ \E a \in sub : a.typ.T = "StructType" /\ a.typ.AlignAttr # 0 /\ a.typ.IsVarlen
        /\ \E a \in sub : a.A = "UnionArg" /\ Size(a) > Size(a.Option[1])
        /\ \E a \in sub : a.typ.T = "ArrayType" /\ Len(a.Inner) >= 2
        /\ \E a \in sub : a.A = "ResultArg"
        /\ \E a \in sub : a.A = "DataArg"
        /\ \E a \in sub : IsPad(a.typ)
        /\ \E a \in sub : a.A = "PointerArg" /\ a.Res # <<>>

(***************************************************************************)
(* C2: the placeholder elements of a squashed pointer are the Result       *)
(* leaves its target subtree directly contained, one each, in structural   *)
(* order, a 4-byte leaf as ANYRES32 and an 8-byte leaf as ANYRES64; the    *)
(* same holds of every nested pointer and its own sequence.                *)
(***************************************************************************)
\* the elements of a squashed sequence that hold a Result, or are typed as
\* a resource placeholder
PlaceholderElems(elems) ==
  SelectSeq(elems, LAMBDA e : e.Option[1].A = "ResultArg"
                              \/ e.Option[1].typ.T = "ResourceType")

PlaceholderOf(leaf, e) ==
  /\ e.Option[1].id = leaf.id
  /\ e.Option[1].A = "ResultArg"
  /\ e.typ = anyUnion
  /\ Size(leaf) = 4 => e.Option[1].typ = anyRes32
  /\ Size(leaf) = 8 => e.Option[1].typ = anyRes64
  /\ Size(leaf) \in {4, 8}

RECURSIVE PlaceholdersMatch(_, _)
\* old: a target subtree before squashPtr; new: the pointer after it
PlaceholdersMatch(old, new) ==
  LET direct == DirectArgs(old)
      leaves == SelectSeq(direct, IsResult)
      nested == SelectSeq(direct, LAMBDA a : a.A = "PointerArg" /\ a.Res # <<>>)
      elems == new.Res[1].Inner
      holders == PlaceholderElems(elems)
  IN /\ Len(holders) = Len(leaves)
     /\ \A k \in 1..Len(leaves) : PlaceholderOf(leaves[k], holders[k])
     /\ \A k \in 1..Len(nested) :
          \E j \in 1..Len(elems) :
             /\ elems[j].Option[1].id = nested[k].id
             /\ PlaceholdersMatch(nested[k].Res[1], elems[j].Option[1])

C2_SquashKeepsResources ==
  Squashed => PlaceholdersMatch(ret.res0[1], SquashedPtr)

\* a completed squash of a subtree with a 4-byte and an 8-byte Result leaf
\* and Result leaves behind a nested pointer
C2_Witness ==
  /\ Squashed
  /\ LET direct == DirectArgs(ret.res0[1])
         leaves == SelectSeq(direct, IsResult)
     IN /\ \E i, j \in 1..Len(leaves) :
             i < j /\ Size(leaves[i]) = 4 /\ Size(leaves[j]) = 8
                   /\ leaves[i].typ.Desc = "fd" /\ leaves[j].typ.Desc = "sock"
        /\ \E k \in 1..Len(direct) :
             /\ direct[k].A = "PointerArg" /\ direct[k].Res # <<>>
             /\ \E a \in SubArgs(direct[k].Res[1]) : a.A = "ResultArg"

(***************************************************************************)
(* C3: analyze(P, c) depends only on the calls before c: the state it      *)
(* returns (resource table, file names, strings, and the notes sent to     *)
(* the two allocators) is the same for the program cut right after c, for  *)
(* the calls before c alone, and for any program that continues the same   *)
(* calls before c with another call in the place of c and another tail.    *)
(***************************************************************************)
Analyzed == op = "analyze" /\ failure = NoPanic

\* the calls before the cutoff of the last analyze call
Before == SubSeq(prog, 1, CallIndex(prog, ret.c) - 1)

\* the call of every syscall of the table not among the calls of p
Others(p) == {c \in TablePool : \A k \in 1..Len(p) : p[k].id # c.id}

C3_AnalyzeReadsOnlyEarlierCalls ==
  Analyzed =>
    LET k == CallIndex(prog, ret.c)
        done == [acc |-> ret.s, panic |-> NoPanic]
    IN /\ k >= 1
       /\ analyze(SubSeq(prog, 1, k), prog[k]) = done
       /\ analyze(Before, prog[k]) = done
       /\ \A c \in Others(Before) :
            /\ analyze(Append(Before, c), c) = done
            /\ \A d \in Others(Append(Before, c)) : analyze(Before \o <<c, d>>, c) = done

\* an analysis with calls on both sides of the cutoff, all of which would
\* add to the state
C3_Witness ==
  /\ Analyzed
  /\ LET k == CallIndex(prog, ret.c)
     IN /\ 1 < k /\ k < Len(prog)
        /\ ret.s # newState
        /\ \A j \in k..Len(prog) :
             ForeachArg(prog[j], "analyze", <<>>, ret.s).acc # ret.s

(***************************************************************************)
(* C4: for calls c_i before c_k of a program, the file names and strings   *)
(* of analyze(P, c_i) are among those of analyze(P, c_k), and the          *)
(* occurrence list of every resource kind at c_i is a prefix of the list   *)
(* at c_k.                                                                 *)
(***************************************************************************)
Includes(later, earlier) ==
  /\ earlier.files \subseteq later.files
  /\ earlier.strings \subseteq later.strings
  /\ \A kind \in DOMAIN earlier.resources :
       /\ kind \in DOMAIN later.resources
       /\ IsPrefix(earlier.resources[kind], later.resources[kind])

C4_AnalyzeGrowsWithCutoff ==
  Analyzed =>
    \A i \in 1..(CallIndex(prog, ret.c) - 1) :
       LET e == analyze(prog, prog[i])
       IN e.panic = NoPanic /\ Includes(ret.s, e.acc)

\* an analysis whose state strictly extends the non-empty state of an
\* earlier cutoff: more occurrences of a kind the earlier state has already
C4_Witness ==
  /\ Analyzed
  /\ \E i \in 1..(CallIndex(prog, ret.c) - 1) :
       LET e == analyze(prog, prog[i]).acc
       IN /\ \E kind \in DOMAIN e.resources :
               /\ Len(e.resources[kind]) >= 1
               /\ Len(ret.s.resources[kind]) > Len(e.resources[kind])
          /\ e.files \cup e.strings # {}

(***************************************************************************)
(* C5: the list analyze(P, B) records under a resource kind is exactly the *)
(* Args of the calls before B whose type is a resource type of that kind   *)
(* with a direction other than input, in traversal order; for              *)
(* P = [pipe, dup] the fd list is the rfd field, then the wfd field.       *)
(***************************************************************************)
Produces(arg, kind) ==
  arg.typ.T = "ResourceType" /\ arg.typ.Desc = kind /\ arg.typ.ArgDir # DirIn

\* the resource kinds of the Args of p, recorded or not
Kinds(p) == {a.typ.Desc : a \in {x \in ProgArgs(p) : x.typ.T = "ResourceType"}}

C5_ResourceTableIsProducersInOrder ==
  Analyzed =>
    LET all == ProgPreOrder(Before, 1)
    IN /\ \A kind \in Kinds(prog) \cup DOMAIN ret.s.resources :
            Lookup(ret.s.resources, kind) =
              Ids(SelectSeq(all, LAMBDA a : Produces(a, kind)))
       /\ \A kind \in DOMAIN ret.s.resources : ret.s.resources[kind] # <<>>
       /\ (prog = <<pipeCall, dupCall>> /\ ret.c = dupCall.id)
            => ret.s.resources = [fd |-> <<FreshId(1, 3), FreshId(1, 4)>>]

\* the analysis of [pipe, dup] up to dup
C5_Witness ==
  /\ Analyzed
  /\ prog = <<pipeCall, dupCall>>
  /\ ret.c = dupCall.id
  /\ Len(Lookup(ret.s.resources, "fd")) = 2

(***************************************************************************)
(* C9: RequiredFeatures reports bitmasks iff some ConstArg of the program  *)
(* has a non-zero bitfield offset or length, and csums iff some Arg has    *)
(* the checksum type; neither depends on the order of the calls.           *)
(***************************************************************************)
HasBitfield(a) == a.A = "ConstArg" /\ (a.typ.BitfieldOff # 0 \/ a.typ.BitfieldLen # 0)

HasCsum(a) == a.typ.T = "CsumType"

\* the orders the calls of p can be put in
CallOrders(p) ==
  {[i \in 1..Len(p) |-> p[f[i]]] :
     f \in {g \in [1..Len(p) -> 1..Len(p)] : \A i, j \in 1..Len(p) : g[i] = g[j] => i = j}}

C9_RequiredFeaturesScansWholeProgram ==
  (op = "RequiredFeatures" /\ failure = NoPanic) =>
    /\ ret.bitmasks = (\E a \in ProgArgs(prog) : HasBitfield(a))
    /\ ret.csums = (\E a \in ProgArgs(prog) : HasCsum(a))
    /\ \A q \in CallOrders(prog) : RequiredFeatures(q) = [acc |-> ret, panic |-> NoPanic]

\* a program of several calls whose only bitfield has offset 2 and length 3,
\* in its last call, and that has no checksum: (true, false)
C9_Witness ==
  /\ op = "RequiredFeatures"
  /\ failure = NoPanic
  /\ Len(prog) >= 2
  /\ ret = [bitmasks |-> TRUE, csums |-> FALSE]
  /\ \A a \in ProgArgs(prog) :
       HasBitfield(a) => /\ a.typ.BitfieldOff = 2 /\ a.typ.BitfieldLen = 3
                         /\ a \in CallArgs(prog[Len(prog)])
  /\ \A a \in ProgArgs(prog) : ~HasCsum(a)

(***************************************************************************)
(* C6: a ForeachArg whose callback never sets Stop, and that returns,      *)
(* calls the callback once for every Arg of the call, in pre-order: the    *)
(* return value and what is below it first, then the arguments in order,   *)
(* each parent before its children; a ForeachSubArg at an Arg visits what  *)
(* ForeachArg visits between that Arg and the end of its subtree.          *)
(***************************************************************************)
\* the call of prog that holds the Arg with identity id
CallOf(id) == CHOOSE k \in 1..Len(prog) : \E a \in CallArgs(prog[k]) : a.id = id

\* the place of x in seq (0: none)
IndexOf(seq, x) ==
  IF \E k \in 1..Len(seq) : seq[k] = x THEN CHOOSE k \in 1..Len(seq) : seq[k] = x ELSE 0

C6_TraversalVisitsOnceInPreOrder ==
  /\ (op = "ForeachArg" /\ ret.stops = {} /\ failure = NoPanic) =>
       LET c == prog[CallIndex(prog, ret.c)]
       IN /\ ret.visits = Ids(CallPreOrder(c))
          /\ NoDuplicates(ret.visits)
          /\ {ret.visits[k] : k \in 1..Len(ret.visits)} = {a.id : a \in CallArgs(c)}
  /\ (op = "ForeachSubArg" /\ failure = NoPanic) =>
       LET all == ForeachArg(prog[CallOf(ret.arg)], "visit", {}, <<>>)
           at == IndexOf(all.acc, ret.arg)
       IN /\ ret.visits = Ids(PreOrder(ArgById(prog, ret.arg)))
          /\ all.panic = NoPanic =>
               /\ at >= 1
               /\ ret.visits = SubSeq(all.acc, at, at + Len(ret.visits) - 1)

\* a completed ForeachArg, without Stop, over a call with a return value,
\* two arguments and an argument behind a pointer
C6_Witness ==
  /\ op = "ForeachArg"
  /\ failure = NoPanic
  /\ ret.stops = {}
  /\ LET c == prog[CallIndex(prog, ret.c)]
     IN /\ c.Ret # <<>>
        /\ Len(c.Args) >= 2
        /\ \E k \in 1..Len(c.Args) : c.Args[k].Res # <<>>
        /\ ret.visits[1] = c.Ret[1].id
        /\ Len(ret.visits) >= 4

(***************************************************************************)
(* C7 (as amended): every Group a traversal visited, and whose children    *)
(* the callback did not prune by setting Stop on it, satisfies the group   *)
(* size invariant if the traversal returned; a traversal aborts with the   *)
(* group size failure only at a visited, unpruned Group that violates the  *)
(* invariant, after the children of that Group were visited.               *)
(***************************************************************************)
Traversed == op \in {"ForeachArg", "ForeachSubArg"}

Stops == IF op = "ForeachArg" THEN ret.stops ELSE {}

\* the Groups the last traversal visited
VisitedGroups ==
  {a \in ProgArgs(prog) : a.A = "GroupArg" /\ \E k \in 1..Len(ret.visits) : ret.visits[k] = a.id}

Visited(a) == \E k \in 1..Len(ret.visits) : ret.visits[k] = a.id

C7_UnprunedGroupsAreChecked ==
  Traversed =>
    /\ failure = NoPanic => \A g \in VisitedGroups : g.id \notin Stops => GroupOK(g)
    /\ failure # NoPanic =>
         /\ failure = "bad group arg size"
         /\ \E g \in VisitedGroups :
              /\ ~GroupOK(g)
              /\ g.id \notin Stops
              /\ \A k \in 1..Len(g.Inner) : Visited(g.Inner[k])

\* the claim as stated: no visited Group of a traversal that returned
\* violates the group size invariant
C7_Original ==
  (Traversed /\ failure = NoPanic) => \A g \in VisitedGroups : GroupOK(g)

\* a traversal that aborted at a Group that violates the invariant, with
\* the children of the Group visited and the Args after the Group not
C7_Witness ==
  /\ Traversed
  /\ failure = "bad group arg size"
  /\ \E g \in VisitedGroups :
       /\ ~GroupOK(g)
       /\ \A k \in 1..Len(g.Inner) : Visited(g.Inner[k])
       /\ \E a \in ProgArgs(prog) : ~Visited(a)

(***************************************************************************)
(* C8: isComplexPtr is false for a pointer without a target or with a      *)
(* direction other than input, true for a pointer of the universal type,   *)
(* and otherwise true iff the target subtree, not searched below a nested  *)
(* pointer, holds a variable-length struct or a variable-length union of   *)
(* more than five fields.                                                  *)
(***************************************************************************)
IsComplexNode(a) ==
  \/ a.typ.T = "StructType" /\ a.typ.IsVarlen
  \/ a.typ.T = "UnionType" /\ a.typ.IsVarlen /\ a.typ.NFields > 5

ExpectedComplex(p) ==
  IF p.Res = <<>> \/ p.typ.ArgDir # DirIn THEN FALSE
  ELSE IF p.typ.T = "PtrType" /\ p.typ.Elem = anyArray.TypeName THEN TRUE
  ELSE LET direct == DirectArgs(p.Res[1])
       IN \E k \in 1..Len(direct) : IsComplexNode(direct[k])

C8_IsComplexPtr ==
  (op = "isComplexPtr" /\ failure = NoPanic) =>
    LET p == ArgById(prog, ret.arg)
        t == IF p.Res = <<>> THEN p ELSE p.Res[1]
    IN /\ ret.res = ExpectedComplex(p)
       /\ (p.Res = <<>> \/ p.typ.ArgDir # DirIn) => ~ret.res
       /\ (p.Res # <<>> /\ p.typ.ArgDir = DirIn /\ ~isAnyPtr(p.typ)) =>
            /\ (t.typ.T = "StructType" /\ t.typ.IsVarlen) => ret.res
            /\ (t.typ.T = "UnionType" /\ t.typ.IsVarlen /\ t.typ.NFields = 6) => ret.res
            /\ (t.typ.T = "UnionType" /\ t.typ.IsVarlen /\ t.typ.NFields = 5
                  /\ Children(t.Option[1]) = <<>>) => ~ret.res
            /\ (t.typ.T = "StructType" /\ ~t.typ.IsVarlen
                  /\ \A k \in 1..Len(t.Inner) :
                       t.Inner[k].A = "PointerArg" \/ Children(t.Inner[k]) = <<>>) => ~ret.res

\* isComplexPtr found a pointer not complex whose target holds a nested
\* pointer to a variable-length struct
C8_Witness ==
  /\ op = "isComplexPtr"
  /\ failure = NoPanic
  /\ ~ret.res
  /\ LET p == ArgById(prog, ret.arg)
     IN /\ p.Res # <<>>
        /\ p.typ.ArgDir = DirIn
        /\ \E a \in SubArgs(p.Res[1]) :
             /\ a.A = "PointerArg" /\ a.Res # <<>>
             /\ a.Res[1].typ.T = "StructType" /\ a.Res[1].typ.IsVarlen

(***************************************************************************)
(* C10 (as amended): a squashPtr that completes removes from what analyze  *)
(* records, at every cutoff, exactly the occurrences that lie in the       *)
(* target subtree of the squashed pointer (nested pointers included): they *)
(* are retyped to the input placeholders ANYRES32 and ANYRES64.  Every     *)
(* other occurrence stays recorded under its kind, in the same relative    *)
(* order, and no occurrence is added.                                      *)
(***************************************************************************)
SquashStep == op' = "squashPtr" /\ failure' = NoPanic

\* the identities of the Args of the subtree the squash flattened
SquashedIds(res0) == {a.id : a \in SubArgs(res0[1])}

RECURSIVE Without(_, _)
\* seq without the members that are in drop
Without(seq, drop) ==
  IF seq = <<>> THEN <<>>
  ELSE IF Head(seq) \in drop THEN Without(Tail(seq), drop)
  ELSE <<Head(seq)>> \o Without(Tail(seq), drop)

C10_SquashRevokesOnlySquashedOccurrences ==
  [][SquashStep =>
       \A k \in 1..Len(prog) :
          LET old == analyze(prog, prog[k])
              new == analyze(prog', prog'[k])
          IN old.panic = NoPanic =>
               /\ new.panic = NoPanic
               /\ \A kind \in DOMAIN old.acc.resources \cup DOMAIN new.acc.resources :
                    Lookup(new.acc.resources, kind) =
                      Without(Lookup(old.acc.resources, kind), SquashedIds(ret'.res0))]_vars

\* the claim as stated: an occurrence analyze records stays recorded under
\* its kind at its position after a squashPtr
C10_Original ==
  [][SquashStep =>
       \A k \in 1..Len(prog) :
          LET old == analyze(prog, prog[k])
              new == analyze(prog', prog'[k])
          IN old.panic = NoPanic =>
               \A kind \in DOMAIN old.acc.resources :
                  \A j \in 1..Len(old.acc.resources[kind]) :
                     /\ j <= Len(Lookup(new.acc.resources, kind))
                     /\ Lookup(new.acc.resources, kind)[j] = old.acc.resources[kind][j]]_vars

\* a completed squash of a pointer to resources that analyze recorded, in a
\* program where analyze still records an occurrence of the same kind
C10_Witness ==
  /\ op = "squashPtr"
  /\ failure = NoPanic
  /\ \E k \in 1..Len(prog) :
       LET new == analyze(prog, prog[k])
       IN /\ new.panic = NoPanic
          /\ CallOf(ret.arg) < k
          /\ \E a \in SubArgs(ret.res0[1]) :
               /\ a.typ.T = "ResourceType"
               /\ a.typ.ArgDir # DirIn
               /\ Len(Lookup(new.acc.resources, a.typ.Desc)) >= 1
               /\ \A j \in 1..Len(Lookup(new.acc.resources, a.typ.Desc)) :
                    Lookup(new.acc.resources, a.typ.Desc)[j] # a.id

====
